---- MODULE Spec2Model ----
(***************************************************************************)
(* A model of rust_api/src/main.rs: a single-threaded HTTP-like server     *)
(* that offers create / read / update / delete of "users" rows kept in a   *)
(* PostgreSQL table.  Text (requests, responses, JSON payloads) is         *)
(* modelled as sequences of one-character strings so that the substring    *)
(* tests, the splits and the JSON (de)serialisation of the program are     *)
(* computed the way the program computes them.                             *)
(***************************************************************************)
EXTENDS Integers, Sequences, FiniteSets, TLC

(***************************************************************************)
(* The state.                                                              *)
(***************************************************************************)
VARIABLES
    pc,         \* where main is: "setup", "listening" (at listener.incoming()),
                \* "handling" (in handle_client), "exited", "panicked"
    streams,    \* the number of accepted TcpStreams not yet dropped
    users,      \* the users table: id |-> [name, email]
    seq,        \* the next value of the id column's SERIAL sequence
    request,    \* the request read from the connection handled last (<<>>: none
                \* was read)
    route,      \* the handler handle_client chose for it
    response,   \* None, or Some of the (status_line, content) the handler returned
    written,    \* the bytes written to that connection
    db          \* what that request did with the store

vars == <<pc, streams, users, seq, request, route, response, written, db>>

(***************************************************************************)
(* Bounds of the model.                                                    *)
(***************************************************************************)
\* The largest value the SERIAL column hands out in the model.
MaxId == 2

(***************************************************************************)
(* Option<T> and Result<T, E> of the program.                              *)
(***************************************************************************)
None == <<>>

Some(v) == <<v>>

Err == [ok |-> FALSE]

Ok(v) == [ok |-> TRUE, val |-> v]

\* Option::unwrap_or_default for &str.
unwrap_or_default(opt) == IF opt = None THEN <<>> ELSE opt[1]

SetMin(S) == CHOOSE x \in S : \A y \in S : x <= y

(***************************************************************************)
(* String literals of the program.                                         *)
(***************************************************************************)
OK_RESPONSE ==
    <<"H", "T", "T", "P", "/", "1", ".", "1", " ", "2", "0", "0", " ", "O", "K", "\r", "\n",
      "C", "o", "n", "t", "e", "n", "t", "-", "T", "y", "p", "e", ":", " ", "a", "p", "p",
      "l", "i", "c", "a", "t", "i", "o", "n", "/", "j", "s", "o", "n", "\r", "\n", "\r",
      "\n">>

NOT_FOUND ==
    <<"H", "T", "T", "P", "/", "1", ".", "1", " ", "4", "0", "4", " ", "N", "O", "T", " ",
      "F", "O", "U", "N", "D", "\r", "\n", "\r", "\n">>

INTERNAL_SERVER_ERROR ==
    <<"H", "T", "T", "P", "/", "1", ".", "1", " ", "5", "0", "0", " ", "I", "N", "T", "E",
      "R", "N", "A", "L", " ", "S", "E", "R", "V", "E", "R", " ", "E", "R", "R", "O", "R",
      "\r", "\n", "\r", "\n">>

str_POST ==
    <<"P", "O", "S", "T">>

str_GET ==
    <<"G", "E", "T">>

str_PUT ==
    <<"P", "U", "T">>

str_DELETE ==
    <<"D", "E", "L", "E", "T", "E">>

pat_users ==
    <<"/", "u", "s", "e", "r", "s">>

pat_user_slash ==
    <<"/", "u", "s", "e", "r", "/">>

pat_users_slash ==
    <<"/", "u", "s", "e", "r", "s", "/">>

str_slash ==
    <<"/">>

str_CRLFCRLF ==
    <<"\r", "\n", "\r", "\n">>

msg_NotFoundURL ==
    <<"N", "o", "t", " ", "F", "o", "u", "n", "d", " ", "U", "R", "L">>

msg_UserCreated ==
    <<"U", "s", "e", "r", " ", "C", "r", "e", "a", "t", "e", "d">>

msg_UserNotFound ==
    <<"U", "s", "e", "r", " ", "N", "o", "t", " ", "F", "o", "u", "n", "d">>

msg_UserUpdated ==
    <<"U", "s", "e", "r", " ", "U", "p", "d", "a", "t", "e", "d">>

msg_UserDeleted ==
    <<"U", "s", "e", "r", " ", "D", "e", "l", "e", "t", "e", "d">>

msg_InternalServerError ==
    <<"I", "n", "t", "e", "r", "n", "a", "l", " ", "S", "e", "r", "v", "e", "r", " ", "E",
      "r", "r", "o", "r">>

\* The size of the read buffer of handle_client.
BufferSize == 1024

\* i32::MAX; i32::MIN is -I32Max - 1.
I32Max == 2147483647

(***************************************************************************)
(* str primitives: starts_with, contains, split, nth, last,                *)
(* split_whitespace().next().                                              *)
(***************************************************************************)
starts_with(s, p) == Len(p) <= Len(s) /\ SubSeq(s, 1, Len(p)) = p

contains(s, p) == \E i \in 0..(Len(s) - Len(p)) : SubSeq(s, i + 1, i + Len(p)) = p

\* The first position >= i at which p occurs in s, or 0.
find_from(s, p, i) ==
    LET hits == {j \in i..(Len(s) - Len(p) + 1) : SubSeq(s, j, j + Len(p) - 1) = p}
    IN  IF hits = {} THEN 0 ELSE SetMin(hits)

\* str::split(sep), collected: the pieces between non-overlapping matches,
\* found left to right; always at least one piece.
split(s, sep) ==
    LET \* the pieces of s from position i on
        pieces[i \in 1..(Len(s) + 1)] ==
            LET j == find_from(s, sep, i)
            IN  IF j = 0 THEN <<SubSeq(s, i, Len(s))>>
                ELSE <<SubSeq(s, i, j - 1)>> \o pieces[j + Len(sep)]
    IN  pieces[1]

\* Iterator::nth(n), counted from 0.
nth(xs, n) == IF n + 1 <= Len(xs) THEN Some(xs[n + 1]) ELSE None

\* Iterator::last().
last(xs) == IF xs = <<>> THEN None ELSE Some(xs[Len(xs)])

is_whitespace(c) == c \in {" ", "\t", "\n", "\r", "\f"}

\* split_whitespace().next(): the first maximal run of non-whitespace.
first_word(s) ==
    LET starts == {i \in 1..Len(s) : ~is_whitespace(s[i])}
    IN  IF starts = {} THEN None
        ELSE LET b == SetMin(starts)
                 ends == {j \in b..Len(s) : is_whitespace(s[j])}
                 e == IF ends = {} THEN Len(s) ELSE SetMin(ends) - 1
             IN  Some(SubSeq(s, b, e))

(***************************************************************************)
(* str::parse::<i32>(): an optional sign, then one or more decimal digits, *)
(* accumulated with checked arithmetic.                                    *)
(***************************************************************************)
Digits == <<"0", "1", "2", "3", "4", "5", "6", "7", "8", "9">>

is_digit(c) == \E d \in 1..10 : Digits[d] = c

digit_value(c) == (CHOOSE d \in 1..10 : Digits[d] = c) - 1

\* One round of the digit loop: checked_mul by 10, then checked_add of the
\* digit (checked_sub for a negative number); None on overflow.
push_digit(acc, d, neg) ==
    IF neg
    THEN IF acc < -(I32Max \div 10) \/ acc * 10 < (-I32Max - 1) + d
         THEN None
         ELSE Some(acc * 10 - d)
    ELSE IF acc > I32Max \div 10 \/ acc * 10 > I32Max - d
         THEN None
         ELSE Some(acc * 10 + d)

\* The digit loop over ds, from 0.
accumulate(ds, neg) ==
    LET \* the result after the first k digits
        after[k \in 0..Len(ds)] ==
            IF k = 0 THEN Some(0)
            ELSE LET before == after[k - 1]
                 IN  IF before = None THEN None
                     ELSE push_digit(before[1], digit_value(ds[k]), neg)
    IN  after[Len(ds)]

parse_i32(s) ==
    LET signed == s /= <<>> /\ s[1] \in {"+", "-"}
        neg == s /= <<>> /\ s[1] = "-"
        ds == IF signed THEN Tail(s) ELSE s
    IN  IF ds = <<>> \/ \E i \in 1..Len(ds) : ~is_digit(ds[i]) THEN Err
        ELSE LET r == accumulate(ds, neg)
             IN  IF r = None THEN Err ELSE Ok(r[1])

\* get_id: the fifth "/"-separated piece of the whole request, cut at its
\* first whitespace.
get_id(req) ==
    unwrap_or_default(first_word(unwrap_or_default(nth(split(req, str_slash), 4))))

(***************************************************************************)
(* serde_json::from_str::<User>: the derived Deserialize of                *)
(*   struct User { id: Option<i32>, name: String, email: String }          *)
(* over a JSON object.  Scalar values (strings without escapes, integers,  *)
(* null, true, false) are modelled; the inputs of the model use no other.  *)
(***************************************************************************)
key_id ==
    <<"i", "d">>

key_name ==
    <<"n", "a", "m", "e">>

key_email ==
    <<"e", "m", "a", "i", "l">>

lit_null ==
    <<"n", "u", "l", "l">>

lit_true ==
    <<"t", "r", "u", "e">>

lit_false ==
    <<"f", "a", "l", "s", "e">>

ser_id ==
    <<"{", "\"", "i", "d", "\"", ":">>

ser_name ==
    <<",", "\"", "n", "a", "m", "e", "\"", ":">>

ser_email ==
    <<",", "\"", "e", "m", "a", "i", "l", "\"", ":">>

is_json_ws(c) == c \in {" ", "\t", "\n", "\r"}

\* The first position >= i of s that holds no JSON whitespace (Len(s) + 1
\* when there is none).
skip_ws(s, i) ==
    LET non == {j \in i..Len(s) : ~is_json_ws(s[j])}
    IN  IF non = {} THEN Len(s) + 1 ELSE SetMin(non)

has_at(s, i, p) == i + Len(p) - 1 <= Len(s) /\ SubSeq(s, i, i + Len(p) - 1) = p

\* A JSON string starting at s[i]: its text and the position after it.
parse_string(s, i) ==
    IF ~has_at(s, i, <<"\"">>) THEN Err
    ELSE LET closes == {j \in (i + 1)..Len(s) : s[j] = "\""}
         IN  IF closes = {} THEN Err
             ELSE LET j == SetMin(closes)
                      text == SubSeq(s, i + 1, j - 1)
                  IN  IF \E k \in 1..Len(text) : text[k] \in {"\\", "\r", "\n", "\t"}
                      THEN Err
                      ELSE [ok |-> TRUE, kind |-> "string", val |-> text, next |-> j + 1]

\* A JSON integer starting at s[i]: no leading zeros, no fraction or exponent.
parse_integer(s, i) ==
    LET neg == has_at(s, i, <<"-">>)
        b == IF neg THEN i + 1 ELSE i
        stops == {j \in b..Len(s) : ~is_digit(s[j])}
        e == IF stops = {} THEN Len(s) ELSE SetMin(stops) - 1
        ds == SubSeq(s, b, e)
    IN  IF ds = <<>> \/ (Len(ds) > 1 /\ ds[1] = "0") THEN Err
        ELSE IF e < Len(s) /\ s[e + 1] \in {".", "e", "E"} THEN Err
        ELSE LET r == accumulate(ds, neg)
             IN  IF r = None THEN Err
                 ELSE [ok |-> TRUE, kind |-> "integer", val |-> r[1], next |-> e + 1]

parse_value(s, i) ==
    IF has_at(s, i, <<"\"">>) THEN parse_string(s, i)
    ELSE IF has_at(s, i, lit_null)
         THEN [ok |-> TRUE, kind |-> "null", val |-> None, next |-> i + Len(lit_null)]
    ELSE IF has_at(s, i, lit_true)
         THEN [ok |-> TRUE, kind |-> "bool", val |-> TRUE, next |-> i + Len(lit_true)]
    ELSE IF has_at(s, i, lit_false)
         THEN [ok |-> TRUE, kind |-> "bool", val |-> FALSE, next |-> i + Len(lit_false)]
    ELSE parse_integer(s, i)

\* The derived visitor's handling of one "key": value pair. acc holds, per
\* field, None (not seen) or Some(value).
visit_field(acc, key, v) ==
    IF key = key_id
    THEN IF acc.id /= None THEN Err                       \* duplicate field
         ELSE IF v.kind = "null" THEN Ok([acc EXCEPT !.id = Some(None)])
         ELSE IF v.kind = "integer" THEN Ok([acc EXCEPT !.id = Some(Some(v.val))])
         ELSE Err                                         \* invalid type
    ELSE IF key = key_name
    THEN IF acc.name /= None \/ v.kind /= "string" THEN Err
         ELSE Ok([acc EXCEPT !.name = Some(v.val)])
    ELSE IF key = key_email
    THEN IF acc.email /= None \/ v.kind /= "string" THEN Err
         ELSE Ok([acc EXCEPT !.email = Some(v.val)])
    ELSE Ok(acc)                                          \* unknown field: ignored

\* The "key": value pairs of the object from position i0 (just before a
\* key) up to the closing brace, in order, and the position after the brace.
members(s, i0) ==
    LET from[i \in 1..(Len(s) + 1)] ==
            LET k == parse_string(s, skip_ws(s, i))
                c == skip_ws(s, k.next)
                v == parse_value(s, skip_ws(s, c + 1))
                n == skip_ws(s, v.next)
                rest == from[n + 1]
            IN  IF ~k.ok THEN Err
                ELSE IF ~has_at(s, c, <<":">>) THEN Err
                ELSE IF ~v.ok THEN Err
                ELSE IF has_at(s, n, <<",">>)
                     THEN IF ~rest.ok THEN Err
                          ELSE [ok |-> TRUE,
                                val |-> <<[key |-> k.val, value |-> v]>> \o rest.val,
                                next |-> rest.next]
                ELSE IF has_at(s, n, <<"}">>)
                     THEN [ok |-> TRUE, val |-> <<[key |-> k.val, value |-> v]>>,
                           next |-> n + 1]
                ELSE Err
    IN  from[i0]

\* The derived visitor's loop over the pairs, stopping at the first error.
visit_map(entries) ==
    LET seen[k \in 0..Len(entries)] ==
            IF k = 0 THEN Ok([id |-> None, name |-> None, email |-> None])
            ELSE LET before == seen[k - 1]
                 IN  IF ~before.ok THEN Err
                     ELSE visit_field(before.val, entries[k].key, entries[k].value)
    IN  seen[Len(entries)]

\* The end of the derived visitor: the User of the fields seen (u), the
\* object having ended at position next of s.
visit_end(s, next, u) ==
    IF ~u.ok THEN Err
    ELSE IF u.val.name = None \/ u.val.email = None THEN Err       \* missing field
    ELSE IF skip_ws(s, next) <= Len(s) THEN Err                    \* trailing characters
    ELSE Ok([id |-> IF u.val.id = None THEN None ELSE u.val.id[1],
             name |-> u.val.name[1],
             email |-> u.val.email[1]])

\* The derived deserialize_struct on the pairs m read from s.
deserialize_struct(s, m) ==
    IF ~m.ok THEN Err ELSE visit_end(s, m.next, visit_map(m.val))

\* serde_json::from_str::<User>(s).
from_str(s) ==
    LET b == skip_ws(s, 1)
        c == skip_ws(s, b + 1)
    IN  IF ~has_at(s, b, <<"{">>) THEN Err
        ELSE deserialize_struct(s, IF has_at(s, c, <<"}">>)
                                   THEN [ok |-> TRUE, val |-> <<>>, next |-> c + 1]
                                   ELSE members(s, b + 1))

\* get_user_request_body: the last piece of the request split at blank
\* lines, decoded as a User.
get_user_request_body(req) ==
    from_str(unwrap_or_default(last(split(req, str_CRLFCRLF))))

(***************************************************************************)
(* serde_json::to_string of a User and of a Vec<User>.                     *)
(***************************************************************************)
\* The decimal digits of a natural number.
decimal(n) ==
    LET digits[m \in Nat] ==
            IF m < 10 THEN <<Digits[m + 1]>>
            ELSE digits[m \div 10] \o <<Digits[(m % 10) + 1]>>
    IN  digits[n]

i32_to_string(n) == IF n < 0 THEN <<"-">> \o decimal(-n) ELSE decimal(n)

quoted(text) == <<"\"">> \o text \o <<"\"">>

user_to_string(user) ==
    ser_id \o (IF user.id = None THEN lit_null ELSE i32_to_string(user.id[1]))
        \o ser_name \o quoted(user.name)
        \o ser_email \o quoted(user.email) \o <<"}">>

\* The serialised users, separated by commas.
join_users(us) ==
    LET upto[k \in 0..Len(us)] ==
            IF k = 0 THEN <<>>
            ELSE IF k = 1 THEN user_to_string(us[1])
            ELSE upto[k - 1] \o <<",">> \o user_to_string(us[k])
    IN  upto[Len(us)]

users_to_string(us) == <<"[">> \o join_users(us) \o <<"]">>

(***************************************************************************)
(* The requests clients send in the model: a request line, an optional     *)
(* header, a blank line and a body.                                        *)
(***************************************************************************)
str_PATCH ==
    <<"P", "A", "T", "C", "H">>

str_version ==
    <<" ", "H", "T", "T", "P", "/", "1", ".", "1", "\r", "\n">>

str_CRLF ==
    <<"\r", "\n">>

tgt_users ==
    <<"/", "u", "s", "e", "r", "s">>

tgt_user_1 ==
    <<"/", "u", "s", "e", "r", "/", "1">>

tgt_users_1 ==
    <<"/", "u", "s", "e", "r", "s", "/", "1">>

tgt_api_user_1 ==
    <<"/", "a", "p", "i", "/", "v", "1", "/", "u", "s", "e", "r", "/", "1">>

tgt_api_user_2 ==
    <<"/", "a", "p", "i", "/", "v", "1", "/", "u", "s", "e", "r", "/", "2">>

tgt_api_users_1 ==
    <<"/", "a", "p", "i", "/", "v", "1", "/", "u", "s", "e", "r", "s", "/", "1">>

tgt_api_users_2 ==
    <<"/", "a", "p", "i", "/", "v", "1", "/", "u", "s", "e", "r", "s", "/", "2">>

tgt_api_users_x ==
    <<"/", "a", "p", "i", "/", "v", "1", "/", "u", "s", "e", "r", "s", "/", "x">>

tgt_other ==
    <<"/", "o", "t", "h", "e", "r">>

hdr_none ==
    <<>>

hdr_accept ==
    <<"A", "c", "c", "e", "p", "t", ":", " ", "*", "/", "*", "\r", "\n">>

hdr_referer ==
    <<"R", "e", "f", "e", "r", "e", "r", ":", " ", "/", "u", "s", "e", "r", "s", "/", "1",
      "\r", "\n">>

body_none ==
    <<>>

body_Ann ==
    <<"{", "\"", "n", "a", "m", "e", "\"", ":", "\"", "A", "n", "n", "\"", ",", "\"", "e",
      "m", "a", "i", "l", "\"", ":", "\"", "a", "@", "x", "\"", "}">>

body_Bob ==
    <<"{", "\"", "n", "a", "m", "e", "\"", ":", "\"", "B", "o", "b", "\"", ",", " ", "\"",
      "e", "m", "a", "i", "l", "\"", ":", "\"", "b", "@", "x", "\"", "}">>

body_AnnWithId ==
    <<"{", "\"", "i", "d", "\"", ":", "7", ",", "\"", "n", "a", "m", "e", "\"", ":", "\"",
      "A", "n", "n", "\"", ",", "\"", "e", "m", "a", "i", "l", "\"", ":", "\"", "a", "@",
      "x", "\"", "}">>

body_NoEmail ==
    <<"{", "\"", "n", "a", "m", "e", "\"", ":", "\"", "A", "n", "n", "\"", "}">>

body_Garbage ==
    <<"n", "a", "m", "e", "=", "A", "n", "n">>

body_TwoParts ==
    <<"{", "\"", "n", "a", "m", "e", "\"", ":", "\"", "A", "n", "n", "\"", ",", "\"", "e",
      "m", "a", "i", "l", "\"", ":", "\"", "a", "@", "x", "\"", "}", "\r", "\n", "\r", "\n",
      "{", "\"", "n", "a", "m", "e", "\"", ":", "\"", "B", "o", "b", "\"", ",", "\"", "e",
      "m", "a", "i", "l", "\"", ":", "\"", "b", "@", "x", "\"", "}">>

build(method, target, header, body) ==
    method \o <<" ">> \o target \o str_version \o header \o str_CRLF \o body

AllTargets ==
    {tgt_users, tgt_user_1, tgt_users_1, tgt_api_user_1, tgt_api_user_2,
     tgt_api_users_1, tgt_api_users_2, tgt_api_users_x, tgt_other}

CreateBodies ==
    {body_none, body_Ann, body_Bob, body_AnnWithId, body_NoEmail, body_Garbage,
     body_TwoParts}

UpdateBodies == {body_Ann, body_Bob, body_AnnWithId, body_NoEmail, body_TwoParts}

\* <<method, target, header, body>> of every request of the model.
Inputs ==
    ({str_GET} \X AllTargets \X {hdr_none} \X {body_none})
    \cup ({str_GET} \X {tgt_user_1, tgt_api_user_1, tgt_other} \X {hdr_accept}
              \X {body_none})
    \cup ({str_DELETE} \X AllTargets \X {hdr_none} \X {body_none})
    \cup ({str_POST} \X {tgt_users, tgt_other} \X {hdr_none} \X CreateBodies)
    \cup ({str_PUT}
              \X {tgt_users_1, tgt_api_users_1, tgt_api_users_2, tgt_api_users_x, tgt_other}
              \X {hdr_none} \X UpdateBodies)
    \cup ({str_PATCH} \X {tgt_users, tgt_api_users_1, tgt_other} \X {hdr_none}
              \X {body_none, body_Ann})
    \cup ({str_GET, str_POST, str_PUT, str_DELETE, str_PATCH} \X {tgt_other}
              \X {hdr_referer} \X {body_none, body_Ann})

Requests == {build(i[1], i[2], i[3], i[4]) : i \in Inputs}

\* What the environment does to one connection: whether Client::connect,
\* the SQL statement and the write to the socket succeed.  No statement is
\* run on a failed connection, so its outcome is drawn only when the
\* connection succeeds.
Envs ==
    {e \in [connect_ok : BOOLEAN, statement_ok : BOOLEAN, write_ok : BOOLEAN] :
        e.connect_ok \/ e.statement_ok}

NoDb == [connect |-> "none", statement |-> "none"]

(***************************************************************************)
(* handle_client's match: the first arm whose guard holds.                 *)
(***************************************************************************)
route_of(r) ==
    IF starts_with(r, str_POST) /\ contains(r, pat_users) THEN "create"
    ELSE IF starts_with(r, str_GET) /\ contains(r, pat_user_slash) THEN "read_one"
    ELSE IF starts_with(r, str_GET) /\ contains(r, pat_users) THEN "read_all"
    ELSE IF starts_with(r, str_PUT) /\ contains(r, pat_users_slash) THEN "update"
    ELSE IF starts_with(r, str_DELETE) /\ contains(r, pat_users_slash) THEN "delete"
    ELSE "not_found"

\* The pure analyses of a request, tabulated over the requests of the model
\* (each is evaluated once).
route_table == [r \in Requests |-> route_of(r)] @@ <<>>

id_table == [r \in Requests |-> parse_i32(get_id(r))] @@ <<>>

body_table == [r \in Requests |-> get_user_request_body(r)] @@ <<>>

(***************************************************************************)
(* What a handler does: it returns a (status_line, content) pair or        *)
(* panics in an unwrap(), having left the table as `table` and the         *)
(* sequence at `next`.                                                     *)
(***************************************************************************)
returned(status_line, content, table, next, connect, statement) ==
    [panic |-> FALSE, status_line |-> status_line, content |-> content,
     users |-> table, seq |-> next,
     db |-> [connect |-> connect, statement |-> statement]]

panicked(table, next) ==
    [panic |-> TRUE, status_line |-> <<>>, content |-> <<>>,
     users |-> table, seq |-> next,
     db |-> [connect |-> "ok", statement |-> "err"]]

connected(env) == IF env.connect_ok THEN "ok" ELSE "err"

\* A handler that looks at the client's data before it connects: its error
\* arm is reached without a connection attempt.
internal_server_error_without_connect(table, next, env) ==
    returned(INTERNAL_SERVER_ERROR, msg_InternalServerError, table, next,
             "none", "none")

\* A handler whose error arm answers 400 BAD REQUEST.
internal_server_error_as_bad_request(table, next, env) ==
    returned(
        <<"H", "T", "T", "P", "/", "1", ".", "1", " ", "4", "0", "0", " ", "B",
          "A", "D", " ", "R", "E", "Q", "U", "E", "S", "T", "\r", "\n", "\r",
          "\n">>,
        msg_InternalServerError, table, next, connected(env), "none")

\* A handler whose error arm answers with the not-found status line instead.
internal_server_error_as_not_found(table, next, env) ==
    returned(NOT_FOUND, msg_InternalServerError, table, next,
             connected(env), "none")

\* The `_ =>` arm of a handler's match: (INTERNAL_SERVER_ERROR, "Internal
\* Server Error"), no statement having been run.
internal_server_error(table, next, env) ==
    returned(INTERNAL_SERVER_ERROR, msg_InternalServerError, table, next,
             connected(env), "none")

\* INSERT INTO users (name, email) VALUES ($1, $2): the row gets the next
\* value of the sequence.
insert(table, next, name, email) ==
    [i \in DOMAIN table \cup {next} |->
        IF i = next THEN [name |-> name, email |-> email] ELSE table[i]]

\* UPDATE users SET name = $1, email = $2 WHERE id = $3.
update(table, id, name, email) ==
    [i \in DOMAIN table |->
        IF i = id THEN [name |-> name, email |-> email] ELSE table[i]]

\* DELETE FROM users WHERE id = $1.
delete(table, id) == [i \in DOMAIN table \ {id} |-> table[i]]

\* The User built from the row of id i.
row_user(table, i) ==
    [id |-> Some(i), name |-> table[i].name, email |-> table[i].email]

\* A create whose failed statement leaves its row in the table.
handle_post_request_insert_then_panic(req, table, next, env) ==
    LET arms(user) ==
            IF user.ok /\ env.connect_ok
            THEN IF env.statement_ok
                 THEN returned(OK_RESPONSE, msg_UserCreated,
                               insert(table, next, user.val.name, user.val.email),
                               next + 1, "ok", "ok")
                 ELSE panicked(insert(table, next, user.val.name, user.val.email),
                               next + 1)
            ELSE internal_server_error(table, next, env)
    IN  arms(body_table[req])

\* A create that stores the row under the id of the body when it carries one.
handle_post_request_with_client_id(req, table, next, env) ==
    LET arms(user) ==
            IF user.ok /\ env.connect_ok
            THEN IF env.statement_ok
                 THEN returned(OK_RESPONSE, msg_UserCreated,
                               insert(table,
                                      IF user.val.id = None THEN next ELSE user.val.id[1],
                                      user.val.name, user.val.email),
                               next + 1, "ok", "ok")
                 ELSE panicked(table, next)
            ELSE internal_server_error(table, next, env)
    IN  arms(body_table[req])

handle_post_request(req, table, next, env) ==
    LET arms(user) ==
            IF user.ok /\ env.connect_ok
            THEN IF env.statement_ok
                 THEN returned(OK_RESPONSE, msg_UserCreated,
                               insert(table, next, user.val.name, user.val.email),
                               next + 1, "ok", "ok")
                 ELSE panicked(table, next)
            ELSE internal_server_error(table, next, env)
    IN  arms(body_table[req])

handle_get_request(req, table, next, env) ==
    LET arms(id) ==
            IF id.ok /\ env.connect_ok
            THEN IF env.statement_ok /\ id.val \in DOMAIN table
                 THEN returned(OK_RESPONSE, user_to_string(row_user(table, id.val)),
                               table, next, "ok", "ok")
                 ELSE returned(NOT_FOUND, msg_UserNotFound, table, next, "ok",
                               IF env.statement_ok THEN "ok" ELSE "err")
            ELSE internal_server_error(table, next, env)
    IN  arms(id_table[req])

\* A read-all that pushes only the first row of the query's result.
handle_get_all_request_first_row_only(req, table, next, env, order) ==
    IF env.connect_ok
    THEN IF env.statement_ok
         THEN returned(OK_RESPONSE,
                       users_to_string([k \in 1..(IF Len(order) = 0 THEN 0 ELSE 1) |->
                                           row_user(table, order[k])]),
                       table, next, "ok", "ok")
         ELSE panicked(table, next)
    ELSE internal_server_error(table, next, env)

\* order: the ids of the table in the order SELECT * FROM users yields them.
handle_get_all_request(req, table, next, env, order) ==
    IF env.connect_ok
    THEN IF env.statement_ok
         THEN returned(OK_RESPONSE,
                       users_to_string([k \in 1..Len(order) |-> row_user(table, order[k])]),
                       table, next, "ok", "ok")
         ELSE panicked(table, next)
    ELSE internal_server_error(table, next, env)

handle_put_request(req, table, next, env) ==
    LET arms(id, user) ==
            IF id.ok /\ user.ok /\ env.connect_ok
            THEN IF env.statement_ok
                 THEN returned(OK_RESPONSE, msg_UserUpdated,
                               update(table, id.val, user.val.name, user.val.email),
                               next, "ok", "ok")
                 ELSE panicked(table, next)
            ELSE internal_server_error(table, next, env)
    IN  arms(id_table[req], body_table[req])

handle_delete_request(req, table, next, env) ==
    LET arms(id) ==
            IF id.ok /\ env.connect_ok
            THEN IF env.statement_ok
                 THEN LET rows_affected == IF id.val \in DOMAIN table THEN 1 ELSE 0
                      IN  IF rows_affected = 0
                          THEN returned(NOT_FOUND, msg_UserNotFound, table, next,
                                        "ok", "ok")
                          ELSE returned(OK_RESPONSE, msg_UserDeleted,
                                        delete(table, id.val), next, "ok", "ok")
                 ELSE panicked(table, next)
            ELSE internal_server_error(table, next, env)
    IN  arms(id_table[req])

\* The match of handle_client: the handler of the request's route.
dispatch(req, table, next, env, order) ==
    LET rt == route_table[req]
    IN  CASE rt = "create" -> handle_post_request(req, table, next, env)
          [] rt = "read_one" -> handle_get_request(req, table, next, env)
          [] rt = "read_all" -> handle_get_all_request(req, table, next, env, order)
          [] rt = "update" -> handle_put_request(req, table, next, env)
          [] rt = "delete" -> handle_delete_request(req, table, next, env)
          [] OTHER -> returned(NOT_FOUND, msg_NotFoundURL, table, next, "none", "none")

\* The orders in which a SELECT without ORDER BY may yield the rows.
RowOrders(table) ==
    {o \in [1..Cardinality(DOMAIN table) -> DOMAIN table] :
        \A a, b \in DOMAIN o : a /= b => o[a] /= o[b]}

\* The bytes of one read into the buffer, as the request string.
read_request(bytes) ==
    SubSeq(bytes, 1, IF Len(bytes) < BufferSize THEN Len(bytes) ELSE BufferSize)

(***************************************************************************)
(* The actions.                                                            *)
(***************************************************************************)
Init ==
    /\ pc = "setup"
    /\ streams = 0
    /\ users = <<>>
    /\ seq = 1
    /\ request = <<>>
    /\ route = "none"
    /\ response = None
    /\ written = <<>>
    /\ db = NoDb

\* main: setup_database succeeds and the listener is bound.
SetupDatabase ==
    /\ pc = "setup"
    /\ pc' = "listening"
    /\ UNCHANGED <<streams, users, seq, request, route, response, written, db>>

\* main: setup_database fails; main prints the error and returns.
SetupDatabaseError ==
    /\ pc = "setup"
    /\ pc' = "exited"
    /\ db' = [connect |-> "err", statement |-> "none"]
    /\ UNCHANGED <<streams, users, seq, request, route, response, written>>

\* A listener that hands over the next stream while a handler is running.
Accept_while_handling ==
    /\ pc \in {"listening", "handling"}
    /\ pc' = "handling"
    /\ streams' = streams + 1
    /\ UNCHANGED <<users, seq, request, route, response, written, db>>

\* main's loop: listener.incoming() yields a stream, which is moved into
\* handle_client.
Accept ==
    /\ pc = "listening"
    /\ pc' = "handling"
    /\ streams' = streams + 1
    /\ UNCHANGED <<users, seq, request, route, response, written, db>>

\* main's loop: listener.incoming() yields an error, which is printed; the
\* loop goes on.
ConnectionError ==
    /\ pc = "listening"
    /\ UNCHANGED vars

\* A handle_client that answers a failed read with a 500 response.
ReadError_answering_500 ==
    /\ pc = "handling"
    /\ pc' = "listening"
    /\ streams' = streams - 1
    /\ request' = <<>>
    /\ route' = "none"
    /\ response' = Some([status_line |-> INTERNAL_SERVER_ERROR,
                         content |-> msg_InternalServerError])
    /\ written' = INTERNAL_SERVER_ERROR \o msg_InternalServerError
    /\ db' = NoDb
    /\ UNCHANGED <<users, seq>>

\* handle_client: the read from the stream fails; the error is printed,
\* nothing is routed or written, and the stream is dropped on return.
ReadError ==
    /\ pc = "handling"
    /\ pc' = "listening"
    /\ streams' = streams - 1
    /\ request' = <<>>
    /\ route' = "none"
    /\ response' = None
    /\ written' = <<>>
    /\ db' = NoDb
    /\ UNCHANGED <<users, seq>>

\* handle_client on a connection whose read yields `bytes`: one read, the
\* match, one write; the stream is dropped on return (and by the unwinding
\* of a panic).
HandleClient ==
    /\ pc = "handling"
    /\ \E bytes \in Requests, env \in Envs :
         \E req \in {read_request(bytes)} :
           \E rt \in {route_table[req]} :
             \E order \in (IF rt = "read_all" THEN RowOrders(users) ELSE {<<>>}) :
               \E res \in {dispatch(req, users, seq, env, order)} :
                   /\ res.seq <= MaxId + 1
                   /\ request' = req
                   /\ route' = rt
                   /\ users' = res.users
                   /\ seq' = res.seq
                   /\ db' = res.db
                   /\ streams' = streams - 1
                   /\ IF res.panic
                      THEN /\ response' = None
                           /\ written' = <<>>
                           /\ pc' = "panicked"
                      ELSE /\ response' = Some([status_line |-> res.status_line,
                                                content |-> res.content])
                           /\ IF env.write_ok
                              THEN /\ written' = res.status_line \o res.content
                                   /\ pc' = "listening"
                              ELSE /\ written' = <<>>
                                   /\ pc' = "panicked"

Next ==
    \/ SetupDatabase
    \/ SetupDatabaseError
    \/ Accept
    \/ ConnectionError
    \/ ReadError
    \/ HandleClient

Spec == Init /\ [][Next]_vars

\* handle_client, once called, runs to its end: the read returns, and the
\* match and the write follow in the same thread.
FairSpec == Spec /\ WF_vars(ReadError \/ HandleClient)

TypeOK ==
    /\ pc \in {"setup", "listening", "handling", "exited", "panicked"}
    /\ streams \in 0..1
    /\ seq \in 1..(MaxId + 1)
    /\ DOMAIN users \subseteq 1..MaxId
    /\ route \in {"none", "create", "read_one", "read_all", "update", "delete", "not_found"}

(***************************************************************************)
(* The words of the specification (spec.md, sections 4.1 and 6): a request *)
(* is <METHOD> <PATH> <VERSION>, headers, a blank line and a body; the     *)
(* identifier is the path segment after the route's literal segment; the   *)
(* payload is what follows the first blank line.                           *)
(***************************************************************************)
request_line(r) == split(r, str_CRLF)[1]

method_token(r) == split(request_line(r), <<" ">>)[1]

path_token(r) ==
    LET tokens == split(request_line(r), <<" ">>)
    IN  IF Len(tokens) >= 2 THEN tokens[2] ELSE <<>>

\* The six classification rules of section 4.1, on the method and path tokens.
spec_route(r) ==
    LET m == method_token(r)
        p == path_token(r)
    IN  IF m = str_POST /\ contains(p, pat_users) THEN "create"
        ELSE IF m = str_GET /\ contains(p, pat_user_slash) THEN "read_one"
        ELSE IF m = str_GET /\ contains(p, pat_users) THEN "read_all"
        ELSE IF m = str_PUT /\ contains(p, pat_users_slash) THEN "update"
        ELSE IF m = str_DELETE /\ contains(p, pat_users_slash) THEN "delete"
        ELSE "not_found"

\* The {id} of /user/{id} and /users/{id}: the path segment after the literal.
spec_id(r) ==
    LET p == path_token(r)
        lit == IF method_token(r) = str_GET THEN pat_user_slash ELSE pat_users_slash
        j == find_from(p, lit, 1)
    IN  IF j = 0 THEN Err
        ELSE parse_i32(split(SubSeq(p, j + Len(lit), Len(p)), str_slash)[1])

\* The body: what follows the first blank line, decoded as {name, email}.
spec_payload(r) ==
    LET j == find_from(r, str_CRLFCRLF, 1)
    IN  IF j = 0 THEN Err ELSE from_str(SubSeq(r, j + Len(str_CRLFCRLF), Len(r)))

spec_table ==
    [r \in Requests |->
        [method |-> method_token(r), path |-> path_token(r), route |-> spec_route(r),
         id |-> spec_id(r), payload |-> spec_payload(r)]] @@ <<>>

\* What the specification says of request r (of no request: route "none").
spec_of(r) ==
    IF r \in Requests THEN spec_table[r]
    ELSE [method |-> <<>>, path |-> <<>>, route |-> "none", id |-> Err, payload |-> Err]

\* The status code of a response (0: no response).
status_of(resp) ==
    IF resp = None THEN 0
    ELSE IF resp[1].status_line = OK_RESPONSE THEN 200
    ELSE IF resp[1].status_line = NOT_FOUND THEN 404
    ELSE IF resp[1].status_line = INTERNAL_SERVER_ERROR THEN 500
    ELSE -1

content_of(resp) == IF resp = None THEN <<>> ELSE resp[1].content

\* The store answered: the connection was made and no statement failed.
store_up(d) == d.connect = "ok" /\ d.statement /= "err"

\* What the handler took from request r (of no request: nothing).
id_of(r) == IF r \in Requests THEN id_table[r] ELSE Err

body_of(r) == IF r \in Requests THEN body_table[r] ELSE Err

\* The users of a serialised list, each decoded with from_str.
decode_list(content) ==
    LET inner == SubSeq(content, 2, Len(content) - 1)
        parts == split(inner, <<"}", ",", "{">>)
    IN  IF inner = <<>> THEN <<>>
        ELSE [k \in 1..Len(parts) |->
                from_str((IF k > 1 THEN <<"{">> ELSE <<>>) \o parts[k]
                         \o (IF k < Len(parts) THEN <<"}">> ELSE <<>>))]

(***************************************************************************)
(* The claims.                                                             *)
(***************************************************************************)

\* C1: every request is classified by the first of the six rules that its
\* method and path match: POST + /users, GET + /user/, GET + /users,
\* PUT + /users/, DELETE + /users/, otherwise not-found.
C1_ClassifiedByMethodAndPath ==
    route /= "none" => route = spec_of(request).route

\* C2: a request whose method and path match none of the five route shapes
\* is answered 404 with the generic body and touches the store in no way,
\* whatever its body.
C2_UnmatchedIs404 ==
    (route /= "none" /\ spec_of(request).route = "not_found")
        => /\ response = Some([status_line |-> NOT_FOUND, content |-> msg_NotFoundURL])
           /\ db = NoDb

\* C3: two requests with the same method and the same path are routed to
\* the same handler, whatever their headers and bodies.
C3_RouteDependsOnMethodAndPathOnly ==
    [][(/\ pc = "handling"
        /\ route /= "none"
        /\ route' /= "none"
        /\ spec_of(request').method = spec_of(request).method
        /\ spec_of(request').path = spec_of(request).path)
       => route' = route]_vars

\* C4: after a create with a valid body that returned 200, a read-one of
\* the identifier the store assigned returns 200 with a record of the
\* body's name and email.
C4_CreateThenReadOne ==
    [][(/\ pc = "handling"
        /\ spec_of(request).route = "create"
        /\ spec_of(request).payload.ok
        /\ status_of(response) = 200
        /\ spec_of(request').route = "read_one"
        /\ spec_of(request').id.ok
        /\ spec_of(request').id.val = seq - 1
        /\ store_up(db'))
       => /\ status_of(response') = 200
          /\ from_str(content_of(response')).ok
          /\ from_str(content_of(response')).val.name = spec_of(request).payload.val.name
          /\ from_str(content_of(response')).val.email
                = spec_of(request).payload.val.email]_vars

\* The response lists every row of the table, and as many rows as it has.
lists_every_row(content, table) ==
    LET us == decode_list(content)
    IN  /\ Len(content) >= 2 /\ content[1] = "[" /\ content[Len(content)] = "]"
        /\ Len(us) = Cardinality(DOMAIN table)
        /\ \A i \in DOMAIN table :
             \E k \in 1..Len(us) :
                /\ us[k].ok
                /\ us[k].val = [id |-> Some(i), name |-> table[i].name,
                                email |-> table[i].email]

\* C5: every successful create adds one record and keeps the others, and a
\* read-all the store answers returns 200 with a list of every record of
\* the table (the empty list for the empty table).
C5_ReadAllListsEveryRecord ==
    /\ []((route = "read_all" /\ store_up(db))
            => (status_of(response) = 200
                /\ lists_every_row(content_of(response), users)))
    /\ [][(pc = "handling" /\ route' = "create" /\ status_of(response') = 200)
            => /\ Cardinality(DOMAIN users') = Cardinality(DOMAIN users) + 1
               /\ \A i \in DOMAIN users : i \in DOMAIN users' /\ users'[i] = users[i]
               /\ \A i \in DOMAIN users' \ DOMAIN users :
                    /\ users'[i].name = body_of(request').val.name
                    /\ users'[i].email = body_of(request').val.email]_vars

\* C5's case: a read-all answered 200 on a table of two created records.
C5_Witness ==
    /\ route = "read_all"
    /\ status_of(response) = 200
    /\ Cardinality(DOMAIN users) >= 2
    /\ Len(decode_list(content_of(response))) >= 2

\* C6: an update of an existing id with a valid body sets the name and
\* email of that record and changes no other record, adds none, removes none.
C6_UpdateChangesExactlyThatRecord ==
    [][(/\ pc = "handling"
        /\ spec_of(request').route = "update"
        /\ spec_of(request').id.ok
        /\ spec_of(request').id.val \in DOMAIN users
        /\ spec_of(request').payload.ok
        /\ store_up(db'))
       => /\ DOMAIN users' = DOMAIN users
          /\ users'[spec_of(request').id.val]
                = [name |-> spec_of(request').payload.val.name,
                   email |-> spec_of(request').payload.val.email]
          /\ \A j \in DOMAIN users \ {spec_of(request').id.val} :
                users'[j] = users[j]]_vars

\* C7: an update with a valid body of an id that has no record is answered
\* 500 and leaves the store unchanged.
C7_UpdateOfMissingIdIs500 ==
    [][(/\ pc = "handling"
        /\ spec_of(request').route = "update"
        /\ spec_of(request').id.ok
        /\ spec_of(request').id.val \notin DOMAIN users
        /\ spec_of(request').payload.ok
        /\ store_up(db'))
       => /\ status_of(response') = 500
          /\ users' = users]_vars

\* C8: a delete of an existing id returns 200 and removes the record, a
\* delete of an id without record returns 404 "User Not Found" and changes
\* nothing, and a read-one of an id just deleted returns 404.
C8_DeleteThenNotFound ==
    [][/\ (/\ pc = "handling"
           /\ spec_of(request').route = "delete"
           /\ spec_of(request').id.ok
           /\ spec_of(request').id.val \in DOMAIN users
           /\ store_up(db'))
          => /\ status_of(response') = 200
             /\ DOMAIN users' = DOMAIN users \ {spec_of(request').id.val}
             /\ \A j \in DOMAIN users' : users'[j] = users[j]
       /\ (/\ pc = "handling"
           /\ spec_of(request').route = "delete"
           /\ spec_of(request').id.ok
           /\ spec_of(request').id.val \notin DOMAIN users
           /\ store_up(db'))
          => /\ status_of(response') = 404
             /\ content_of(response') = msg_UserNotFound
             /\ users' = users
       /\ (/\ pc = "handling"
           /\ spec_of(request).route = "delete"
           /\ status_of(response) = 200
           /\ spec_of(request').route = "read_one"
           /\ spec_of(request').id = spec_of(request).id
           /\ store_up(db'))
          => status_of(response') = 404]_vars

\* The handler returned and the write of its response failed.
write_failed == response /= None /\ written = <<>>

\* C9: when the store connection or the statement of a routed request
\* fails, the connection receives one complete 500 response and the failure
\* does not get past handle_client.
C9_StoreFailureIs500 ==
    (route /= "none" /\ (db.connect = "err" \/ db.statement = "err") /\ ~write_failed)
        => /\ pc /= "panicked"
           /\ status_of(response) = 500
           /\ written = INTERNAL_SERVER_ERROR \o content_of(response)

\* The request gave the handler of route rt no usable body or identifier.
client_data_error(rt, r) ==
    \/ rt \in {"create", "update"} /\ ~body_of(r).ok
    \/ rt \in {"read_one", "update", "delete"} /\ ~id_of(r).ok

C11_IdsAreStoreGenerated ==
    /\ [](\A i \in DOMAIN users : i < seq)
    /\ [][/\ (DOMAIN users' \ DOMAIN users /= {})
              => /\ route' = "create"
                 /\ DOMAIN users' \ DOMAIN users = {seq}
                 /\ seq' = seq + 1
          /\ (route' = "create" /\ status_of(response') = 200 /\ pc = "handling")
              => DOMAIN users' = DOMAIN users \cup {seq}
          /\ (route' = "update" /\ pc = "handling")
              => DOMAIN users' = DOMAIN users]_vars

\* C11's case: a create whose body carries the id 7 was answered 200 and the
\* table holds a record.
C11_Witness ==
    /\ route = "create"
    /\ status_of(response) = 200
    /\ body_of(request).ok
    /\ body_of(request).val.id = Some(7)
    /\ users /= <<>>

\* The three forms of a response (spec.md, section 6): the status line and,
\* on 200 only, the Content-Type header.
line_200_OK ==
    <<"H", "T", "T", "P", "/", "1", ".", "1", " ", "2", "0", "0", " ", "O",
      "K">>

line_404_NOT_FOUND ==
    <<"H", "T", "T", "P", "/", "1", ".", "1", " ", "4", "0", "4", " ", "N",
      "O", "T", " ", "F", "O", "U", "N", "D">>

line_500_INTERNAL_SERVER_ERROR ==
    <<"H", "T", "T", "P", "/", "1", ".", "1", " ", "5", "0", "0", " ", "I",
      "N", "T", "E", "R", "N", "A", "L", " ", "S", "E", "R", "V", "E", "R",
      " ", "E", "R", "R", "O", "R">>

line_content_type ==
    <<"C", "o", "n", "t", "e", "n", "t", "-", "T", "y", "p", "e", ":", " ",
      "a", "p", "p", "l", "i", "c", "a", "t", "i", "o", "n", "/", "j", "s",
      "o", "n">>

\* The lines of the bytes w before their first blank line.
head_lines(w) ==
    split(SubSeq(w, 1, find_from(w, str_CRLFCRLF, 1) - 1), str_CRLF)

\* The bytes of w after their first blank line.
after_head(w) ==
    SubSeq(w, find_from(w, str_CRLFCRLF, 1) + Len(str_CRLFCRLF), Len(w))

\* C12: the bytes written to a connection are a 200 OK status line with the
\* Content-Type: application/json header, or a 404 NOT FOUND status line
\* without header, or a 500 INTERNAL SERVER ERROR status line without
\* header, then a blank line, then the body the handler returned.
C12_ResponseIsOneOfThreeForms ==
    written /= <<>>
        => /\ find_from(written, str_CRLFCRLF, 1) > 0
           /\ head_lines(written) \in {<<line_200_OK, line_content_type>>,
                                        <<line_404_NOT_FOUND>>,
                                        <<line_500_INTERNAL_SERVER_ERROR>>}
           /\ (head_lines(written)[1] = line_200_OK) = (status_of(response) = 200)
           /\ (head_lines(written)[1] = line_404_NOT_FOUND) = (status_of(response) = 404)
           /\ after_head(written) = content_of(response)

\* C12's case: the record of a read-one was written after the 200 form.
C12_Witness ==
    /\ route = "read_one"
    /\ status_of(response) = 200
    /\ written /= <<>>
    /\ head_lines(written) = <<line_200_OK, line_content_type>>

\* C13: at most one accepted stream is open at any time, and it is open
\* exactly while handle_client runs; a stream is accepted only when none is
\* open; the step that handles a stream (one read, the routing, the store
\* call, the write) ends with that stream closed, so a stream carries one
\* request; and the request record, the response and the store change only
\* in the step of the one running handler.
C13_OneConnectionAtATime ==
    /\ [](streams <= 1 /\ (pc = "handling") = (streams = 1))
    /\ [][/\ (streams' > streams) => (pc = "listening" /\ streams = 0)
          /\ (pc = "handling") => (pc' /= "handling" /\ streams' = 0)
          /\ (<<users, seq, request, route, response, written>>'
                  /= <<users, seq, request, route, response, written>>)
              => (pc = "handling" /\ streams = 1)]_vars

\* C13's case: a stream is accepted after an earlier one was answered and
\* closed.
C13_Witness ==
    /\ pc = "handling"
    /\ streams = 1
    /\ route /= "none"
    /\ written /= <<>>

\* C14: when the read of an accepted stream fails (no request is read from
\* it), nothing is routed, no response is returned or written, the store is
\* neither connected to nor changed, the stream is closed and main is back
\* at the listener, where the next stream can be accepted.
C14_ReadFailureIsAbandoned ==
    /\ [](pc = "listening" => ENABLED Accept)
    /\ [][(pc = "handling" /\ request' = <<>>)
            => /\ route' = "none"
               /\ response' = None
               /\ written' = <<>>
               /\ db' = NoDb
               /\ users' = users
               /\ seq' = seq
               /\ streams' = 0
               /\ pc' = "listening"]_vars

\* C14's case: the read failed on a stream accepted after a request had
\* stored a record.
C14_Witness ==
    /\ pc = "listening"
    /\ request = <<>>
    /\ route = "none"
    /\ users /= <<>>

\* C15: for a read-one, update or delete request the identifier the handler
\* parses is the path segment that follows /user/ (read-one) or /users/
\* (update, delete) in the request line, whatever the headers and the body.
C15_IdentifierIsSegmentAfterLiteral ==
    (route \in {"read_one", "update", "delete"} /\ spec_of(request).route = route)
        => id_of(request) = spec_of(request).id

\* C16: for a create or update request the payload the handler decodes is
\* what follows the first blank line of the request, later blank lines
\* included.
C16_PayloadFollowsFirstBlankLine ==
    (route \in {"create", "update"} /\ spec_of(request).route = route)
        => body_of(request) = spec_of(request).payload

\* C17: a request routed to one of the five handlers makes one connection
\* attempt to the store (also when its body or identifier is unusable) and
\* runs a statement only on a connection that was made; after a failed
\* attempt nothing more is tried and 500 is returned; a request routed to
\* not-found makes no attempt.
C17_OneConnectionAttemptPerRequest ==
    /\ route \in {"create", "read_one", "read_all", "update", "delete"}
        => /\ db.connect \in {"ok", "err"}
           /\ db.statement /= "none" => db.connect = "ok"
           /\ db.connect = "err" => (db.statement = "none" /\ status_of(response) = 500)
    /\ route = "not_found" => db = NoDb

\* C17's case: an update whose identifier is no integer still made its one
\* connection, and ran no statement on it.
C17_Witness ==
    /\ route = "update"
    /\ ~id_of(request).ok
    /\ db = [connect |-> "ok", statement |-> "none"]
    /\ status_of(response) = 500

\* C18: the table changes only in the step of a request that the create,
\* update or delete handler answers 200; a request routed to read-one,
\* read-all or not-found, a failed read, and every request answered 404 or
\* 500 leave the table as it was.
C18_StoreChangesOnlyOn200 ==
    [][/\ (users' /= users)
           => /\ pc = "handling"
              /\ route' \in {"create", "update", "delete"}
              /\ status_of(response') = 200
       /\ (pc = "handling" /\ route' \in {"read_one", "read_all", "not_found", "none"})
           => users' = users
       /\ (pc = "handling" /\ status_of(response') \in {404, 500})
           => users' = users]_vars

\* C18's case: a delete answered 404 on a table that holds a record.
C18_Witness ==
    /\ route = "delete"
    /\ status_of(response) = 404
    /\ users /= <<>>

\* C19: whatever the outcome of handling a connection, main returns to the
\* listener: every accepted stream is eventually handled with main back at
\* listener.incoming(), ready for the next one.
C19_ServerStaysAvailable ==
    (pc = "handling") ~> (pc = "listening")

====
